---- MODULE Spec2Model ----
(***************************************************************************)
(* Model of the derived-metrics engine of the Mekasfi dashboard            *)
(* (src/app.py): process_data and the weekly / accumulated-variation       *)
(* sections of main.  Dates are proleptic Gregorian ordinals               *)
(* (datetime.toordinal); float64 values are exact rationals extended with  *)
(* NaN, +inf and -inf (IEEE-754 without rounding and without signed zero). *)
(***************************************************************************)
EXTENDS Integers, Sequences, FiniteSets

VARIABLES xlsx, df, pc, error,
          ultima_data, ultima_data_semana_anterior, data_semana,
          df_tabela_semanal,
          primeira_data_mes, primeira_data_ano, primeira_data_12m, inicio_df,
          var_mes, var_ano, var_12m, var_inicio, dados_resumo

vars == <<xlsx, df, pc, error,
          ultima_data, ultima_data_semana_anterior, data_semana,
          df_tabela_semanal,
          primeira_data_mes, primeira_data_ano, primeira_data_12m, inicio_df,
          var_mes, var_ano, var_12m, var_inicio, dados_resumo>>

(* Longest workbook sheet that is enumerated. *)
MaxLen == 3

(***************************************************************************)
(* float64                                                                 *)
(***************************************************************************)
Abs(x) == IF x < 0 THEN 0 - x ELSE x

RECURSIVE Gcd(_, _)
Gcd(a, b) == IF b = 0 THEN a ELSE Gcd(b, a % b)

Sign(x) == IF x > 0 THEN 1 ELSE IF x < 0 THEN 0 - 1 ELSE 0

NaN  == [k |-> "nan",  n |-> 0, d |-> 1]
PInf == [k |-> "inf",  n |-> 0, d |-> 1]
NInf == [k |-> "ninf", n |-> 0, d |-> 1]

(* The rational n/d in lowest terms with a positive denominator. *)
Num(n, d) ==
    LET g == Gcd(Abs(n), Abs(d))
        s == IF d < 0 THEN 0 - 1 ELSE 1
    IN  [k |-> "num", n |-> (s * n) \div g, d |-> (s * d) \div g]

FromInt(i) == Num(i, 1)
Zero == FromInt(0)
One  == FromInt(1)

isna(x) == x.k = "nan"
IsFinite(x) == x.k = "num"

(* Sign of a non-NaN value: -1, 0 or 1. *)
FSign(x) == IF x.k = "inf" THEN 1
            ELSE IF x.k = "ninf" THEN 0 - 1
            ELSE Sign(x.n)

SignedInf(s) == IF s > 0 THEN PInf ELSE NInf

FNeg(x) == IF x.k = "nan" THEN NaN
           ELSE IF x.k = "inf" THEN NInf
           ELSE IF x.k = "ninf" THEN PInf
           ELSE Num(0 - x.n, x.d)

FAdd(x, y) ==
    IF isna(x) \/ isna(y) THEN NaN
    ELSE IF IsFinite(x) /\ IsFinite(y) THEN Num(x.n * y.d + y.n * x.d, x.d * y.d)
    ELSE IF IsFinite(x) THEN y
    ELSE IF IsFinite(y) THEN x
    ELSE IF x.k = y.k THEN x
    ELSE NaN

FSub(x, y) == FAdd(x, FNeg(y))

FMul(x, y) ==
    IF isna(x) \/ isna(y) THEN NaN
    ELSE IF IsFinite(x) /\ IsFinite(y) THEN Num(x.n * y.n, x.d * y.d)
    ELSE IF FSign(x) = 0 \/ FSign(y) = 0 THEN NaN
    ELSE SignedInf(FSign(x) * FSign(y))

(* True division of float64: a zero divisor gives inf or NaN, no exception. *)
FDiv(x, y) ==
    IF isna(x) \/ isna(y) THEN NaN
    ELSE IF IsFinite(x) /\ IsFinite(y)
         THEN IF y.n = 0
              THEN IF x.n = 0 THEN NaN ELSE SignedInf(Sign(x.n))
              ELSE Num(x.n * y.d, x.d * y.n)
    ELSE IF IsFinite(y)
         THEN SignedInf(FSign(x) * (IF y.n < 0 THEN 0 - 1 ELSE 1))
    ELSE IF IsFinite(x) THEN Zero
    ELSE NaN

(* a / b - 1, the expression of every point-to-point variation. *)
Variation(a, b) == FSub(FDiv(a, b), One)

(***************************************************************************)
(* String formatting                                                       *)
(***************************************************************************)
(* Nearest integer to n/d (d > 0), ties to even. *)
RoundHalfEven(n, d) ==
    LET q == n \div d
        r == n % d
    IN  IF 2 * r < d THEN q
        ELSE IF 2 * r > d THEN q + 1
        ELSE IF q % 2 = 0 THEN q ELSE q + 1

Blank == [t |-> "", v |-> 0]

(* f"{x:.2%}": the value in hundredths of a percent, or nan% / inf% / -inf%. *)
FormatPct(x) ==
    IF x.k = "num" THEN [t |-> "%", v |-> RoundHalfEven(x.n * 10000, x.d)]
    ELSE IF x.k = "nan" THEN [t |-> "nan%", v |-> 0]
    ELSE IF x.k = "inf" THEN [t |-> "inf%", v |-> 0]
    ELSE [t |-> "-inf%", v |-> 0]

(***************************************************************************)
(* datetime                                                                *)
(***************************************************************************)
IsLeap(y) == (y % 4 = 0) /\ ((y % 100 # 0) \/ (y % 400 = 0))

DaysBeforeYear(y) ==
    LET p == y - 1 IN p * 365 + p \div 4 - p \div 100 + p \div 400

DaysInMonth(y, m) ==
    IF m = 2 THEN (IF IsLeap(y) THEN 29 ELSE 28)
    ELSE IF m \in {4, 6, 9, 11} THEN 30 ELSE 31

(* Days of a common year before each month. *)
DaysBeforeMonthCommon == <<0, 31, 59, 90, 120, 151, 181, 212, 243, 273, 304, 334>>

DaysBeforeMonth(y, m) ==
    DaysBeforeMonthCommon[m] + (IF m > 2 /\ IsLeap(y) THEN 1 ELSE 0)

(* date(y, m, d).toordinal() *)
Date(y, m, d) == DaysBeforeYear(y) + DaysBeforeMonth(y, m) + d

YearOf(o) ==
    LET g == (o - 1) \div 365 + 1
    IN  IF DaysBeforeYear(g) < o THEN g
        ELSE IF DaysBeforeYear(g - 1) < o THEN g - 1
        ELSE g - 2

DayOfYear(o) == o - DaysBeforeYear(YearOf(o))

(* The month of day n of year y: the last month that starts before it. *)
MonthOfYearDay(y, n) ==
    IF n <= 31 THEN 1
    ELSE CHOOSE m \in 2..12 :
            /\ DaysBeforeMonth(y, m) < n
            /\ (m = 12 \/ n <= DaysBeforeMonth(y, m + 1))

MonthOf(o) == MonthOfYearDay(YearOf(o), DayOfYear(o))

DayOf(o) == DayOfYear(o) - DaysBeforeMonth(YearOf(o), MonthOf(o))

(* date.weekday(): Monday is 0. *)
Weekday(o) == (o + 6) % 7

(* date - timedelta(days=n) *)
MinusDays(o, n) == o - n

(* date.isocalendar()[1]: the week of the Thursday of the date's week. *)
IsoWeek(o) ==
    LET th == o - Weekday(o) + 3 IN (DayOfYear(th) - 1) \div 7 + 1

(* Not-a-time, the result of an aggregation over an empty DatetimeIndex. *)
NaT == 0

(* bool(Timestamp) and bool(NaT): neither class defines __bool__, so both *)
(* are true.                                                              *)
Truthy(t) == TRUE

(* '%d.%m - %A': day, month and weekday name; the year is not printed. *)
Strftime(o) ==
    [fmt |-> "%d.%m - %A", day |-> DayOf(o), month |-> MonthOf(o),
     weekday |-> Weekday(o), week |-> 0]

(* f"**Semana {numero_semana}**" *)
SemanaLabel(w) ==
    [fmt |-> "**Semana**", day |-> 0, month |-> 0, weekday |-> 0, week |-> w]

(***************************************************************************)
(* pandas                                                                  *)
(***************************************************************************)
SetMax(S) == CHOOSE x \in S : \A y \in S : y <= x
SetMin(S) == CHOOSE x \in S : \A y \in S : x <= y

(* Index.max() / Index.min(): NaT over an empty DatetimeIndex. *)
IndexMax(S) == IF S = {} THEN NaT ELSE SetMax(S)
IndexMin(S) == IF S = {} THEN NaT ELSE SetMin(S)

(* df.index as a set of labels (the labels of a sheet are unique). *)
Labels(frame) == {frame[i].date : i \in 1..Len(frame)}

(* label in df.index *)
HasLabel(frame, label) == label \in Labels(frame)

(* df.loc[label]: the row of a label that is in the index. *)
Loc(frame, label) ==
    frame[CHOOSE i \in 1..Len(frame) : frame[i].date = label]

IsMonotonicIncreasing(frame) ==
    \A i \in 1..(Len(frame) - 1) : frame[i].date <= frame[i + 1].date

(* Series.pct_change(): row i against row i - 1, NaN in the first row.    *)
(* (No level of a sheet is NaN, so the default forward fill is a no-op.)  *)
PctChange(col) ==
    [i \in 1..Len(col) |->
        IF i = 1 THEN NaN ELSE Variation(col[i], col[i - 1])]

(* Series.cumprod(): NaN entries are skipped, they stay NaN in the result *)
(* and leave the running product unchanged.                               *)
RECURSIVE CumProdFrom(_, _, _)
CumProdFrom(col, i, acc) ==
    IF i > Len(col) THEN <<>>
    ELSE IF isna(col[i]) THEN <<NaN>> \o CumProdFrom(col, i + 1, acc)
    ELSE LET p == FMul(acc, col[i]) IN <<p>> \o CumProdFrom(col, i + 1, p)

CumProd(col) == CumProdFrom(col, 1, One)

(* (1 + daily).cumprod() - 1 *)
Accumulated(daily) ==
    LET grown == [i \in 1..Len(daily) |-> FAdd(One, daily[i])]
        prod  == CumProd(grown)
    IN  [i \in 1..Len(daily) |-> FSub(prod[i], One)]

(* The frame process_data returns: the rows of df in their given order,   *)
(* with the computed columns.                                             *)
ProcessedFrame(frame) ==
    LET n         == Len(frame)
        CotaMKSF  == [i \in 1..n |->
                        FDiv(FromInt(frame[i].PL_MKSF), FromInt(frame[i].Qtd_Cotas))]
        IBOV      == [i \in 1..n |-> FromInt(frame[i].IBOV)]
        IBOVdaily == PctChange(IBOV)
        MKSFdaily == PctChange(CotaMKSF)
        IBOVacum  == Accumulated(IBOVdaily)
        MKSFacum  == Accumulated(MKSFdaily)
    IN  [i \in 1..n |->
            [date      |-> frame[i].date,
             PL_MKSF   |-> frame[i].PL_MKSF,
             Qtd_Cotas |-> frame[i].Qtd_Cotas,
             IBOV      |-> IBOV[i],
             CotaMKSF  |-> CotaMKSF[i],
             IBOVdaily |-> IBOVdaily[i],
             MKSFdaily |-> MKSFdaily[i],
             IBOVacum  |-> IBOVacum[i],
             MKSFacum  |-> MKSFacum[i],
             Spread    |-> FSub(MKSFacum[i], IBOVacum[i])]]

(* The pair (fund, benchmark) of variations between two rows of the frame. *)
VarPair(frame, fim, inicio) ==
    [mksf |-> Variation(Loc(frame, fim).CotaMKSF, Loc(frame, inicio).CotaMKSF),
     ibov |-> Variation(Loc(frame, fim).IBOV, Loc(frame, inicio).IBOV)]

NoVar == [mksf |-> NaN, ibov |-> NaN]

(* Mutant of LocSliceFrom: the slice starts after the label start.        *)
LocSliceAfter(frame, start) ==
    {[raises |-> FALSE, labels |-> {d \in Labels(frame) : d > start}]}

(* Mutant of LocSliceFrom: a start before the first label selects nothing. *)
LocSliceWithinIndex(frame, start) ==
    {[raises |-> FALSE,
      labels |-> IF start < IndexMin(Labels(frame)) THEN {}
                 ELSE {d \in Labels(frame) : d >= start}]}

(* df.loc[start:] on a DatetimeIndex, as the set of labels it may select.  *)
(* On a monotonic increasing index the slice runs from the first label     *)
(* >= start to the end.  On any other index pandas selects by the mask     *)
(* index >= start; when start is not itself a label, pandas 2 raises       *)
(* KeyError where pandas 1 only warns, so both outcomes are possible.      *)
LocSliceFrom(frame, start) ==
    LET mask == {d \in Labels(frame) : d >= start}
    IN  IF IsMonotonicIncreasing(frame) \/ HasLabel(frame, start)
        THEN {[raises |-> FALSE, labels |-> mask]}
        ELSE {[raises |-> FALSE, labels |-> mask],
              [raises |-> TRUE,  labels |-> {}]}

(* The labels of the index whose bare ISO week number is that of a day. *)
SameWeekNumber(frame, day) ==
    {d \in Labels(frame) : IsoWeek(d) = IsoWeek(day)}

(* Mutant of StartOfWeek: counts the days with isoweekday (Monday is 1). *)
StartOfWeekIso(o) == MinusDays(o, Weekday(o) + 1)

(* Monday of the week of a date. *)
StartOfWeek(o) == MinusDays(o, Weekday(o))

(* The five rows Monday..Friday of the weekly table. *)
DayRows(frame, days) ==
    [i \in 1..5 |->
        IF HasLabel(frame, days[i])
        THEN [Dia      |-> Strftime(days[i]),
              Mekasfi  |-> FormatPct(Loc(frame, days[i]).MKSFdaily),
              Ibovespa |-> FormatPct(Loc(frame, days[i]).IBOVdaily)]
        ELSE [Dia |-> Strftime(days[i]), Mekasfi |-> Blank, Ibovespa |-> Blank]]

(* Mutant of FirstOfMonth: compares the month and not the year. *)
FirstOfMonthAnyYear(frame, ref) ==
    IndexMin({d \in Labels(frame) : MonthOf(d) = MonthOf(ref)})

(* First label of the month / of the year of the latest date. *)
FirstOfMonth(frame, ref) ==
    IndexMin({d \in Labels(frame) :
                 YearOf(d) = YearOf(ref) /\ MonthOf(d) = MonthOf(ref)})

FirstOfYear(frame, ref) ==
    IndexMin({d \in Labels(frame) : YearOf(d) = YearOf(ref)})

FormatPair(v) == <<FormatPct(v.mksf), FormatPct(v.ibov)>>

(***************************************************************************)
(* Workbooks                                                               *)
(***************************************************************************)
(* Candidate trading days: around two turns of the year, so that the      *)
(* ISO week, the month, the year and the 365-day cutoff all have days on  *)
(* both sides.                                                            *)
DatePool ==
    {Date(2023, 12, 28), Date(2024, 1, 4), Date(2024, 1, 9), Date(2024, 1, 10),
     Date(2024, 12, 30), Date(2025, 1, 3), Date(2025, 1, 8)}

ShortPool == {Date(2024, 12, 30), Date(2025, 1, 3), Date(2025, 1, 8)}

(* Levels of a row: net asset value, shares outstanding, benchmark. *)
Levels ==
    {[PL_MKSF |-> 100, Qtd_Cotas |-> 100, IBOV |-> 1000],
     [PL_MKSF |-> 102, Qtd_Cotas |-> 100, IBOV |-> 1010]}

LevelsWithZero ==
    Levels \cup {[PL_MKSF |-> 102, Qtd_Cotas |-> 0,   IBOV |-> 1010],
                 [PL_MKSF |-> 100, Qtd_Cotas |-> 100, IBOV |-> 0]}

SheetRows(pool, levels) ==
    {[date |-> d, PL_MKSF |-> l.PL_MKSF, Qtd_Cotas |-> l.Qtd_Cotas, IBOV |-> l.IBOV] :
        d \in pool, l \in levels}

(* The sheets of 1..MaxLen rows with unique dates, in any row order. *)
Workbooks(pool, levels) ==
    UNION {{s \in [1..n -> SheetRows(pool, levels)] :
               \A i, j \in 1..n : i # j => s[i].date # s[j].date} :
           n \in 1..MaxLen}

(***************************************************************************)
(* The run of main                                                         *)
(***************************************************************************)
NoError == [type |-> "none", line |-> 0]

(* An exception that leaves main, with the line of the failing statement. *)
Raised(type, line) == [type |-> type, line |-> line]

Blanks ==
    /\ df = <<>>
    /\ pc = "load_data"
    /\ error = NoError
    /\ ultima_data = NaT
    /\ ultima_data_semana_anterior = NaT
    /\ data_semana = <<>>
    /\ df_tabela_semanal = <<>>
    /\ primeira_data_mes = NaT
    /\ primeira_data_ano = NaT
    /\ primeira_data_12m = NaT
    /\ inicio_df = NaT
    /\ var_mes = NoVar
    /\ var_ano = NoVar
    /\ var_12m = NoVar
    /\ var_inicio = NoVar
    /\ dados_resumo = <<>>

Init == xlsx \in Workbooks(DatePool, Levels) /\ Blanks

InitLevels == xlsx \in Workbooks(ShortPool, LevelsWithZero) /\ Blanks

LoadData ==
    /\ pc = "load_data"
    /\ df' = xlsx
    /\ pc' = "process_data"
    /\ UNCHANGED <<xlsx, error, ultima_data, ultima_data_semana_anterior,
                   data_semana, df_tabela_semanal, primeira_data_mes,
                   primeira_data_ano, primeira_data_12m, inicio_df,
                   var_mes, var_ano, var_12m, var_inicio, dados_resumo>>

ProcessData ==
    /\ pc = "process_data"
    /\ df' = ProcessedFrame(df)
    /\ ultima_data' = IndexMax(Labels(df))
    /\ pc' = "semanal"
    /\ UNCHANGED <<xlsx, error, ultima_data_semana_anterior,
                   data_semana, df_tabela_semanal, primeira_data_mes,
                   primeira_data_ano, primeira_data_12m, inicio_df,
                   var_mes, var_ano, var_12m, var_inicio, dados_resumo>>

SecaoSemanal ==
    /\ pc = "semanal"
    /\ LET numero_semana == IsoWeek(ultima_data)
           dia_semana_anterior == MinusDays(ultima_data, 7)
           anterior == IndexMax(SameWeekNumber(df, dia_semana_anterior))
           start_of_week == StartOfWeek(ultima_data)
           dias == [i \in 1..5 |-> start_of_week + (i - 1)]
           tabela == DayRows(df, dias)
       IN  /\ ultima_data_semana_anterior' = anterior
           /\ data_semana' = dias
           /\ IF Truthy(anterior) /\ Truthy(ultima_data)
              THEN IF HasLabel(df, anterior)
                   THEN LET v == VarPair(df, ultima_data, anterior)
                        IN  /\ df_tabela_semanal' =
                                   Append(tabela,
                                          [Dia      |-> SemanaLabel(numero_semana),
                                           Mekasfi  |-> FormatPct(v.mksf),
                                           Ibovespa |-> FormatPct(v.ibov)])
                            /\ pc' = "resumo"
                            /\ error' = NoError
                   ELSE /\ df_tabela_semanal' = tabela
                        /\ pc' = "raised"
                        /\ error' = Raised("KeyError", 374)
              ELSE /\ df_tabela_semanal' = tabela
                   /\ pc' = "resumo"
                   /\ error' = NoError
    /\ UNCHANGED <<xlsx, df, ultima_data, primeira_data_mes,
                   primeira_data_ano, primeira_data_12m, inicio_df,
                   var_mes, var_ano, var_12m, var_inicio, dados_resumo>>

(* How many of the four windows are computed before a lookup raises. *)
WindowsComputed(frame, mes, ano, slice, ini) ==
    IF ~HasLabel(frame, mes) THEN 0
    ELSE IF ~HasLabel(frame, ano) THEN 1
    ELSE IF slice.raises \/ ~HasLabel(frame, IndexMin(slice.labels)) THEN 2
    ELSE IF ~HasLabel(frame, ini) THEN 3
    ELSE 4

SecaoResumo ==
    /\ pc = "resumo"
    /\ \E slice \in LocSliceFrom(df, MinusDays(ultima_data, 365)) :
         LET mes  == FirstOfMonth(df, ultima_data)
             ano  == FirstOfYear(df, ultima_data)
             m12  == IndexMin(slice.labels)
             ini  == IndexMin(Labels(df))
             done == WindowsComputed(df, mes, ano, slice, ini)
         IN  /\ primeira_data_mes' = mes
             /\ var_mes' = IF done >= 1 THEN VarPair(df, ultima_data, mes) ELSE var_mes
             /\ primeira_data_ano' = IF done >= 1 THEN ano ELSE primeira_data_ano
             /\ var_ano' = IF done >= 2 THEN VarPair(df, ultima_data, ano) ELSE var_ano
             /\ primeira_data_12m' =
                    IF done >= 2 /\ ~slice.raises THEN m12 ELSE primeira_data_12m
             /\ var_12m' = IF done >= 3 THEN VarPair(df, ultima_data, m12) ELSE var_12m
             /\ inicio_df' = IF done >= 3 THEN ini ELSE inicio_df
             /\ var_inicio' =
                    IF done >= 4 THEN VarPair(df, ultima_data, ini) ELSE var_inicio
             /\ dados_resumo' =
                    IF done >= 4
                    THEN [Mes    |-> FormatPair(var_mes'),
                          Ano    |-> FormatPair(var_ano'),
                          Doze   |-> FormatPair(var_12m'),
                          Inicio |-> FormatPair(var_inicio')]
                    ELSE dados_resumo
             /\ pc' = IF done >= 4 THEN "done" ELSE "raised"
             /\ error' =
                    IF done >= 4 THEN NoError
                    ELSE IF done = 3 THEN Raised("KeyError", 430)
                    ELSE IF done = 2
                         THEN Raised("KeyError", IF slice.raises THEN 422 ELSE 423)
                    ELSE IF done = 1 THEN Raised("KeyError", 415)
                    ELSE Raised("KeyError", 408)
    /\ UNCHANGED <<xlsx, df, ultima_data, ultima_data_semana_anterior,
                   data_semana, df_tabela_semanal>>

Next == LoadData \/ ProcessData \/ SecaoSemanal \/ SecaoResumo

Spec == Init /\ [][Next]_vars

SpecLevels == InitLevels /\ [][Next]_vars

(***************************************************************************)
(* Properties                                                              *)
(***************************************************************************)
(* The ISO year of a date: the year of the Thursday of its week. *)
IsoYear(o) == YearOf(o - Weekday(o) + 3)

Processed == pc \in {"semanal", "resumo", "done", "raised"}

(* The weekly section has run (to its end or to an exception). *)
WeeklyBuilt == data_semana # <<>>

(* ultima_data - timedelta(days=365) *)
Cutoff == MinusDays(ultima_data, 365)

RowsInDateOrder == IsMonotonicIncreasing(xlsx)

PositiveLevels ==
    \A i \in 1..Len(xlsx) :
        xlsx[i].PL_MKSF > 0 /\ xlsx[i].Qtd_Cotas > 0 /\ xlsx[i].IBOV > 0

(* The rows of a sheet in ascending date order. *)
SortByDate(rows) ==
    CHOOSE s \in [1..Len(rows) -> {rows[i] : i \in 1..Len(rows)}] :
        /\ \A i \in 1..(Len(rows) - 1) : s[i].date < s[i + 1].date
        /\ {s[i] : i \in 1..Len(rows)} = {rows[i] : i \in 1..Len(rows)}

(* The labels in the ISO week (year and week) that precedes the week of   *)
(* the latest date.                                                       *)
PrecedingWeekLabels ==
    {d \in Labels(df) :
        /\ IsoYear(d) = IsoYear(MinusDays(ultima_data, 7))
        /\ IsoWeek(d) = IsoWeek(MinusDays(ultima_data, 7))}

HasTotalRow == Len(df_tabela_semanal) = 6

C3_NoTotalRowWithoutPrecedingWeek ==
    (WeeklyBuilt /\ PrecedingWeekLabels = {}) =>
        /\ error.line # 374
        /\ Len(df_tabela_semanal) = 5

(* C4, as claimed: the anchor of the week-total row is the latest date    *)
(* whose ISO year and ISO week are those of the week preceding the week   *)
(* of the latest date; a date of another ISO year is never the anchor.    *)
C4_AnchorInPrecedingIsoWeek ==
    HasTotalRow =>
        /\ PrecedingWeekLabels # {}
        /\ ultima_data_semana_anterior = SetMax(PrecedingWeekLabels)

(* C5, as claimed: the derived fields of each date do not depend on the   *)
(* order of the input rows; they are those of the rows taken in date      *)
(* order.                                                                 *)
C5_DerivedFieldsIgnoreRowOrder ==
    Processed =>
        \A d \in Labels(df) :
            Loc(df, d) = Loc(ProcessedFrame(SortByDate(xlsx)), d)

(* C6, as claimed: with at least 2 observations (rows in date order), at  *)
(* the first date the daily returns are null and the cumulative returns   *)
(* are 0.                                                                 *)
C6_FirstDateCumulativeIsZero ==
    (Processed /\ Len(df) >= 2 /\ RowsInDateOrder) =>
        LET first == Loc(df, IndexMin(Labels(df)))
        IN  /\ isna(first.MKSFdaily)
            /\ isna(first.IBOVdaily)
            /\ first.MKSFacum = Zero
            /\ first.IBOVacum = Zero

(* C7, as claimed: where shares or the benchmark level is 0 the           *)
(* derivation completes and the values that needed the division are null: *)
(* the unit value and its return at that date, and the return of the next *)
(* row, which divides by the zero level.                                  *)
C7_ZeroDivisorGivesNull ==
    Processed =>
        \A i \in 1..Len(df) :
            /\ df[i].Qtd_Cotas = 0 =>
                  /\ isna(df[i].CotaMKSF)
                  /\ isna(df[i].MKSFdaily)
            /\ (i > 1 /\ df[i - 1].Qtd_Cotas = 0) => isna(df[i].MKSFdaily)
            /\ (i > 1 /\ df[i - 1].IBOV = Zero) => isna(df[i].IBOVdaily)

(* C8, as claimed: for rows in date order with positive levels, at every  *)
(* date the chained cumulative return equals the direct ratio to the first*)
(* date minus 1, and the since-inception return equals the last value of  *)
(* the cumulative series.                                                 *)
C8_ChainEqualsDirectRatio ==
    (RowsInDateOrder /\ PositiveLevels) =>
        /\ Processed =>
              \A i \in 1..Len(df) :
                  /\ df[i].MKSFacum = Variation(df[i].CotaMKSF, df[1].CotaMKSF)
                  /\ df[i].IBOVacum = Variation(df[i].IBOV, df[1].IBOV)
        /\ pc = "done" =>
              /\ var_inicio.mksf = df[Len(df)].MKSFacum
              /\ var_inicio.ibov = df[Len(df)].IBOVacum

(* C9: the month-to-date start is the earliest date in the year and month *)
(* of the latest date, the year-to-date start the earliest date in its    *)
(* year, the since-inception start the earliest date; each is a date of   *)
(* the series, inception <= year <= month <= latest date, and a window    *)
(* that starts on the latest date has return 0 (positive levels there).   *)
C9_WindowStarts ==
    pc = "done" =>
        LET dates == Labels(df)
            ref   == SetMax(dates)
            inMonth == {d \in dates : YearOf(d) = YearOf(ref) /\ MonthOf(d) = MonthOf(ref)}
            inYear  == {d \in dates : YearOf(d) = YearOf(ref)}
            last  == Loc(xlsx, ref)
            zero  == [mksf |-> Zero, ibov |-> Zero]
            positive == last.PL_MKSF > 0 /\ last.Qtd_Cotas > 0 /\ last.IBOV > 0
        IN  /\ ultima_data = ref
            /\ primeira_data_mes \in inMonth
            /\ \A d \in inMonth : primeira_data_mes <= d
            /\ primeira_data_ano \in inYear
            /\ \A d \in inYear : primeira_data_ano <= d
            /\ inicio_df \in dates
            /\ \A d \in dates : inicio_df <= d
            /\ inicio_df <= primeira_data_ano
            /\ primeira_data_ano <= primeira_data_mes
            /\ primeira_data_mes <= ref
            /\ (positive /\ primeira_data_mes = ref) => var_mes = zero
            /\ (positive /\ primeira_data_ano = ref) => var_ano = zero
            /\ (positive /\ primeira_data_12m = ref) => var_12m = zero
            /\ (positive /\ inicio_df = ref) => var_inicio = zero

(* C9 witness: three different starts, the month-to-date window starting  *)
(* on the latest date with return 0.                                      *)
C9_DistinctStartsReached ==
    /\ pc = "done"
    /\ inicio_df < primeira_data_ano
    /\ primeira_data_ano < primeira_data_mes
    /\ primeira_data_mes = ultima_data
    /\ var_mes.mksf = Zero
    /\ var_ano.mksf # Zero

(* C10: the weekly table has five day slots, the consecutive dates Monday *)
(* to Friday of the ISO week of the latest date; the cells of a slot hold *)
(* the formatted daily returns of its date when the date is in the        *)
(* series, and are blank when it is not.                                  *)
C10_WeekdaySlots ==
    WeeklyBuilt =>
        /\ Len(data_semana) = 5
        /\ Len(df_tabela_semanal) >= 5
        /\ Weekday(data_semana[1]) = 0
        /\ \A i \in 1..5 :
              /\ data_semana[i] = data_semana[1] + (i - 1)
              /\ Weekday(data_semana[i]) = i - 1
              /\ IsoYear(data_semana[i]) = IsoYear(IndexMax(Labels(df)))
              /\ IsoWeek(data_semana[i]) = IsoWeek(IndexMax(Labels(df)))
              /\ df_tabela_semanal[i].Dia = Strftime(data_semana[i])
              /\ data_semana[i] \in Labels(df) =>
                    /\ df_tabela_semanal[i].Mekasfi =
                          FormatPct(Loc(df, data_semana[i]).MKSFdaily)
                    /\ df_tabela_semanal[i].Ibovespa =
                          FormatPct(Loc(df, data_semana[i]).IBOVdaily)
                    /\ df_tabela_semanal[i].Mekasfi # Blank
                    /\ df_tabela_semanal[i].Ibovespa # Blank
              /\ data_semana[i] \notin Labels(df) =>
                    /\ df_tabela_semanal[i].Mekasfi = Blank
                    /\ df_tabela_semanal[i].Ibovespa = Blank

(* C10 witness: a week with a slot that shows a numeric return, a slot    *)
(* that is blank, and the slots crossing the turn of the year.            *)
C10_MixedWeekReached ==
    /\ WeeklyBuilt
    /\ \E i \in 1..5 : df_tabela_semanal[i].Mekasfi.t = "%"
                       /\ df_tabela_semanal[i].Mekasfi.v # 0
    /\ \E i \in 1..5 : df_tabela_semanal[i].Mekasfi = Blank
    /\ YearOf(data_semana[1]) # YearOf(data_semana[5])

====
